---- MODULE Spec2Model ----
(***************************************************************************)
(* DockerOps (src/src/commands.rs, src/src/database.rs, src/src/main.rs):  *)
(* the reconciliation pass process_and_deploy_stacks, the image sweep      *)
(* process_images and the commands watch, reconcile and stop, over the     *)
(* three tables of the SQLite store.                                       *)
(*                                                                         *)
(* External collaborators (git clone, docker, the registry, the file       *)
(* system of the mirror target) answer nondeterministically: every answer  *)
(* the code distinguishes is one choice of the action that asks.           *)
(***************************************************************************)
EXTENDS Integers, Sequences, FiniteSets, TLC

\* ------------------------------------------------------------------ bounds

\* Commands (watch, a pass, reconcile, stop) started in one behaviour.
MaxCommands == 2

\* ------------------------------------------------------- strings and paths

\* str::contains(char)
Contains(s, ch) == \E i \in 1..Len(s) : SubSeq(s, i, i) = ch

RECURSIVE SplitFrom(_, _, _, _)
\* The pieces of s from position i on, the current piece starting at `from`.
SplitFrom(s, ch, from, i) ==
    IF i > Len(s) THEN << SubSeq(s, from, Len(s)) >>
    ELSE IF SubSeq(s, i, i) = ch
         THEN << SubSeq(s, from, i - 1) >> \o SplitFrom(s, ch, i + 1, i + 1)
         ELSE SplitFrom(s, ch, from, i + 1)

\* str::split(char).collect::<Vec<&str>>()
Split(s, ch) == SplitFrom(s, ch, 1, 1)

\* Path::join: an absolute second path replaces the first.
PathJoin(base, rel) ==
    IF Len(rel) > 0 /\ SubSeq(rel, 1, 1) = "/" THEN rel ELSE base \o "/" \o rel

\* ------------------------------------------------------------ YAML values

\* serde_yaml::Value: a string scalar, another scalar, a mapping (a sequence
\* of entries, in document order), a sequence.
Str(s) == [t |-> "str", s |-> s, kids |-> << >>]
Scalar(s) == [t |-> "scalar", s |-> s, kids |-> << >>]
Mapping(entries) == [t |-> "map", s |-> "", kids |-> entries]
Sequence(items) == [t |-> "seq", s |-> "", kids |-> items]
\* One mapping entry, key and value both values.
Entry(k, v) == [k |-> k, v |-> v]
KV(key, v) == Entry(Str(key), v)

\* Value::as_str
IsStr(v) == v.t = "str"

\* A text file: what serde_yaml::from_str makes of it. `form` tells the text
\* as written by its author from the text serde_yaml::to_string emits.
RawText(v) == [form |-> "raw", parses |-> TRUE, value |-> v]
BrokenText == [form |-> "raw", parses |-> FALSE, value |-> Scalar("")]
\* serde_yaml::to_string
to_string(v) == [form |-> "emitted", parses |-> TRUE, value |-> v]

\* Commands::calculate_md5: the digest as an equality oracle, one digest per
\* text (no collision among the texts of the model).
calculate_md5(content) == [md5 |-> content]

\* --------------------------------------------------- image reference scan

RECURSIVE extract_images_from_yaml(_), ExtractEntries(_, _), ExtractItems(_, _)
\* Commands::extract_images_from_yaml: the images pushed, in push order.
extract_images_from_yaml(value) ==
    IF value.t = "map" THEN ExtractEntries(value.kids, 1)
    ELSE IF value.t = "seq" THEN ExtractItems(value.kids, 1)
    ELSE << >>

\* The `for (key, val) in mapping` loop of extract_images_from_yaml.
ExtractEntries(entries, i) ==
    IF i > Len(entries) THEN << >>
    ELSE LET key == entries[i].k
             val == entries[i].v
             here == IF IsStr(key) /\ key.s = "image"
                     THEN IF IsStr(val) /\ val.s # "" THEN << val.s >> ELSE << >>
                     ELSE extract_images_from_yaml(val)
         IN  here \o ExtractEntries(entries, i + 1)

\* The `for item in sequence` loop of extract_images_from_yaml.
ExtractItems(items, i) ==
    IF i > Len(items) THEN << >>
    ELSE extract_images_from_yaml(items[i]) \o ExtractItems(items, i + 1)

\* The images process_yaml_file finds in a text: none when it does not parse
\* (a warning, Ok(())).
ImagesFound(content) ==
    IF content.parses THEN extract_images_from_yaml(content.value) ELSE << >>

\* -------------------------------------------------------- volume rewriting

\* volumes_definitions.iter().find(|v| v.id == volume_id): the index of the
\* first definition with that id, 0 when there is none.
FindVolume(volumes_definitions, volume_id) ==
    IF \E i \in 1..Len(volumes_definitions) : volumes_definitions[i].id = volume_id
    THEN CHOOSE i \in 1..Len(volumes_definitions) :
            /\ volumes_definitions[i].id = volume_id
            /\ \A j \in 1..(i - 1) : volumes_definitions[j].id # volume_id
    ELSE 0

\* An entry whose identifier the catalog has not loses the identifier.
RewriteMount_DropUnknown(volume, volumes_definitions) ==
    IF ~IsStr(volume) THEN volume
    ELSE IF ~Contains(volume.s, ":") THEN volume
    ELSE LET parts == Split(volume.s, ":") IN
         IF Len(parts) # 2 THEN volume
         ELSE LET found == FindVolume(volumes_definitions, parts[1]) IN
              IF found = 0 THEN Str(parts[2])
              ELSE Str(volumes_definitions[found].path \o ":" \o parts[2])

\* A matching entry is replaced by the path alone, the container path lost.
RewriteMount_PathOnly(volume, volumes_definitions) ==
    IF ~IsStr(volume) THEN volume
    ELSE IF ~Contains(volume.s, ":") THEN volume
    ELSE LET parts == Split(volume.s, ":") IN
         IF Len(parts) # 2 THEN volume
         ELSE LET found == FindVolume(volumes_definitions, parts[1]) IN
              IF found = 0 THEN volume
              ELSE Str(volumes_definitions[found].path)

\* One entry of a service's volume list, as process_service_volumes leaves it.
RewriteMount(volume, volumes_definitions) ==
    IF ~IsStr(volume) THEN volume
    ELSE IF ~Contains(volume.s, ":") THEN volume
    ELSE LET parts == Split(volume.s, ":") IN
         IF Len(parts) # 2 THEN volume
         ELSE LET found == FindVolume(volumes_definitions, parts[1]) IN
              IF found = 0 THEN volume
              ELSE Str(volumes_definitions[found].path \o ":" \o parts[2])

\* Commands::process_service_volumes
process_service_volumes(volumes, volumes_definitions) ==
    IF volumes.t = "seq"
    THEN Sequence([i \in 1..Len(volumes.kids) |->
                      RewriteMount(volumes.kids[i], volumes_definitions)])
    ELSE volumes

\* Value::get(key) on a mapping: the index of the entry with that string key,
\* 0 when the value is no mapping or has no such key.
KeyIndex(v, key) ==
    IF v.t = "map" /\ \E i \in 1..Len(v.kids) : v.kids[i].k = Str(key)
    THEN CHOOSE i \in 1..Len(v.kids) : v.kids[i].k = Str(key)
    ELSE 0

\* One service of the services mapping: its "volumes" rewritten when it has any.
RewriteService(service, volumes_definitions) ==
    LET vi == KeyIndex(service, "volumes") IN
    IF vi = 0 THEN service
    ELSE Mapping([service.kids EXCEPT
            ![vi].v = process_service_volumes(@, volumes_definitions)])

\* The YAML value process_compose_volumes serialises: every service of
\* "services" rewritten, the rest of the document as parsed.
RewriteCompose(yaml_value, volumes_definitions) ==
    LET si == KeyIndex(yaml_value, "services") IN
    IF si = 0 THEN yaml_value
    ELSE LET services == yaml_value.kids[si].v IN
         IF services.t # "map" THEN yaml_value
         ELSE Mapping([yaml_value.kids EXCEPT
                 ![si].v = Mapping([j \in 1..Len(services.kids) |->
                     Entry(services.kids[j].k,
                           RewriteService(services.kids[j].v, volumes_definitions))])])

\* Commands::process_compose_volumes on a text that parses.
process_compose_volumes(compose_content, volumes_definitions) ==
    to_string(RewriteCompose(compose_content.value, volumes_definitions))

\* ------------------------------------------------------------- the store

\* The counts of the earlier pass are kept.
reset_image_reference_counts_Kept(imgs) == imgs

\* Database::reset_image_reference_counts
reset_image_reference_counts(imgs) ==
    { [name |-> i.name, reference_count |-> 0] : i \in imgs }

\* The DELETE leaves the table as it is.
delete_images_with_zero_count_Skipped(imgs) == imgs

\* Database::delete_images_with_zero_count
delete_images_with_zero_count(imgs) == { i \in imgs : i.reference_count # 0 }

\* Database::get_image_by_name: the rows of that name (at most one: UNIQUE).
get_image_by_name(imgs, name) == { i \in imgs : i.name = name }

\* Database::update_image_reference_count
update_image_reference_count(imgs, name, count) ==
    { IF i.name = name THEN [i EXCEPT !.reference_count = count] ELSE i : i \in imgs }

\* Database::create_image: INSERT OR IGNORE.
create_image(imgs, image) ==
    IF get_image_by_name(imgs, image.name) # {} THEN imgs ELSE imgs \cup {image}

\* Commands::update_image_reference
update_image_reference(imgs, image_name) ==
    LET existing == get_image_by_name(imgs, image_name) IN
    IF existing # {}
    THEN LET existing_image == CHOOSE i \in existing : TRUE
         IN  update_image_reference_count(imgs, image_name,
                                          existing_image.reference_count + 1)
    ELSE create_image(imgs, [name |-> image_name, reference_count |-> 1])

RECURSIVE UpdateReferences(_, _, _)
\* The `for image_name in &images_found` loop of process_yaml_file.
UpdateReferences(imgs, images_found, i) ==
    IF i > Len(images_found) THEN imgs
    ELSE UpdateReferences(update_image_reference(imgs, images_found[i]),
                          images_found, i + 1)

\* The document is not fed to the reference counts.
process_yaml_file_Unfed(imgs, content) == imgs

\* Commands::process_yaml_file
process_yaml_file(imgs, content) == UpdateReferences(imgs, ImagesFound(content), 1)

\* The lookup goes by name alone.
get_stack_by_name_AnyOrigin(stks, name, repository_url) ==
    { s \in stks : s.name = name }

\* Database::get_stack_by_name: the rows of (name, repository_url), at most one.
get_stack_by_name(stks, name, repository_url) ==
    { s \in stks : s.name = name /\ s.repository_url = repository_url }

\* Stack::new, as process_and_deploy_stacks builds it: status "pending".
NewStack(name, repository_url, compose_path, hash) ==
    [name |-> name, repository_url |-> repository_url,
     compose_path |-> compose_path, hash |-> hash, status |-> "pending"]

\* Database::create_stack: INSERT OR REPLACE under UNIQUE(name, repository_url).
create_stack(stks, stack) ==
    (stks \ get_stack_by_name(stks, stack.name, stack.repository_url)) \cup {stack}

\* Database::update_stack_hash
update_stack_hash(stks, name, repository_url, hash) ==
    { IF s.name = name /\ s.repository_url = repository_url
      THEN [s EXCEPT !.hash = hash] ELSE s : s \in stks }

\* Database::update_stack_status
update_stack_status(stks, name, repository_url, status) ==
    { IF s.name = name /\ s.repository_url = repository_url
      THEN [s EXCEPT !.status = status] ELSE s : s \in stks }

\* ------------------------------------------------------------- the inputs

\* The origins `watch` is given (github_url).
Origins == {"github.com/ops/a", "github.com/ops/b"}

\* The candidate compose files of a stack directory, in precedence order.
compose_files ==
    << "docker-compose.yml", "docker-compose.yaml", "compose.yml", "compose.yaml" >>

\* The image names of the documents below, in the order of `ORDER BY name`.
ImageOrder == << "myorg/app:v2", "nginx", "registry.example.com/team/app:v1" >>

\* services: web: {image: nginx, volumes: [a:/x, logs, cache:/data, scratch:/tmp]}
DocWeb ==
    Mapping(<< KV("version", Scalar("3")),
               KV("services", Mapping(<<
                   KV("web", Mapping(<< KV("image", Str("nginx")),
                                        KV("volumes", Sequence(<< Str("a:/x"),
                                                                  Str("logs"),
                                                                  Str("cache:/data"),
                                                                  Str("scratch:/tmp") >>)) >>)) >>)) >>)

\* services: web: {image: nginx}, db: {image: registry.example.com/team/app:v1},
\* cron: {image: nginx}
DocPair ==
    Mapping(<< KV("services", Mapping(<<
                   KV("web", Mapping(<< KV("image", Str("nginx")) >>)),
                   KV("db", Mapping(<< KV("image", Str("registry.example.com/team/app:v1")) >>)),
                   KV("cron", Mapping(<< KV("image", Str("nginx")) >>)) >>)) >>)

\* services: app: {image: myorg/app:v2}
DocApp ==
    Mapping(<< KV("services", Mapping(<<
                   KV("app", Mapping(<< KV("image", Str("myorg/app:v2")) >>)) >>)) >>)

\* services: worker: {build: ., image: {image: nginx}}
DocBuild ==
    Mapping(<< KV("services", Mapping(<<
                   KV("worker", Mapping(<< KV("build", Str(".")),
                                           KV("image", Mapping(<<
                                               KV("image", Str("nginx")) >>)) >>)) >>)) >>)

\* A file of a checkout that is absent.
NoFile == [exists |-> FALSE, parses |-> FALSE]
\* stacks.yaml: Vec<StackDefinition>.
Manifest(names) ==
    [exists |-> TRUE, parses |-> TRUE, defs |-> [i \in 1..Len(names) |-> [name |-> names[i]]]]
NoManifest == [exists |-> FALSE, parses |-> FALSE, defs |-> << >>]
BadManifest == [exists |-> TRUE, parses |-> FALSE, defs |-> << >>]
\* volumes.yaml: Vec<VolumeDefinition>.
Volumes(defs) == [exists |-> TRUE, parses |-> TRUE, defs |-> defs]
NoVolumes == [exists |-> FALSE, parses |-> FALSE, defs |-> << >>]
VolumeDef(id, type, path) == [id |-> id, type |-> type, path |-> path]
\* nfs.yaml: NfsConfig.
Nfs(path) == [exists |-> TRUE, parses |-> TRUE, path |-> path]
NoNfs == [exists |-> FALSE, parses |-> FALSE, path |-> ""]
\* A stack directory with its files, a missing one.
Dir(files) == [is_dir |-> TRUE, files |-> files]
NoDir == [is_dir |-> FALSE, files |-> << >>]
File(name, text) == [f \in {name} |-> text]

\* The stack names of the checkouts, in the order of `ORDER BY name`.
StackOrder == << "app", "db", "web" >>

StackNames == { StackOrder[i] : i \in 1..Len(StackOrder) }

\* The checkouts clone_repository can return: what the repository holds at
\* the time of the clone.
Checkouts == <<
    \* 1: two stacks, no volume catalog; db holds two candidate files
    [stacks_yaml |-> Manifest(<< "web", "db" >>),
     dirs |-> [n \in StackNames |->
                 IF n = "web" THEN Dir(File("docker-compose.yml", RawText(DocWeb)))
                 ELSE IF n = "db"
                 THEN Dir([f \in {"compose.yml", "docker-compose.yaml"} |->
                             IF f = "compose.yml" THEN RawText(DocApp)
                             ELSE RawText(DocPair)])
                 ELSE NoDir],
     volumes_yaml |-> NoVolumes, nfs_yaml |-> NoNfs, local_paths |-> {}],
    \* 2: as 1 with the compose document of web changed
    [stacks_yaml |-> Manifest(<< "web", "db" >>),
     dirs |-> [n \in StackNames |->
                 IF n = "web" THEN Dir(File("docker-compose.yml", RawText(DocApp)))
                 ELSE IF n = "db" THEN Dir(File("docker-compose.yaml", RawText(DocPair)))
                 ELSE NoDir],
     volumes_yaml |-> NoVolumes, nfs_yaml |-> NoNfs, local_paths |-> {}],
    \* 3: web has no directory, db a directory without compose file, app a
    \*    compose file that does not parse
    [stacks_yaml |-> Manifest(<< "web", "db", "app" >>),
     dirs |-> [n \in StackNames |->
                 IF n = "web" THEN NoDir
                 ELSE IF n = "db" THEN Dir(File("README.md", BrokenText))
                 ELSE Dir(File("compose.yaml", BrokenText))],
     volumes_yaml |-> NoVolumes, nfs_yaml |-> NoNfs, local_paths |-> {}],
    \* 4: no stacks.yaml
    [stacks_yaml |-> NoManifest,
     dirs |-> [n \in StackNames |-> Dir(File("docker-compose.yml", RawText(DocPair)))],
     volumes_yaml |-> NoVolumes, nfs_yaml |-> NoNfs, local_paths |-> {}],
    \* 5: a stacks.yaml that does not parse
    [stacks_yaml |-> BadManifest,
     dirs |-> [n \in StackNames |-> Dir(File("docker-compose.yml", RawText(DocWeb)))],
     volumes_yaml |-> NoVolumes, nfs_yaml |-> NoNfs, local_paths |-> {}],
    \* 6: web declared twice, app without volumes; Docker volumes a -> b and
    \*    b -> c, a binding and no nfs.yaml
    [stacks_yaml |-> Manifest(<< "web", "web", "app" >>),
     dirs |-> [n \in StackNames |->
                 IF n = "web" THEN Dir(File("docker-compose.yml", RawText(DocWeb)))
                 ELSE IF n = "app" THEN Dir(File("compose.yml", RawText(DocBuild)))
                 ELSE NoDir],
     volumes_yaml |-> Volumes(<< VolumeDef("a", "volume", "b"),
                                 VolumeDef("b", "volume", "c"),
                                 VolumeDef("cache", "binding", "files/cache") >>),
     nfs_yaml |-> NoNfs, local_paths |-> {"files/cache"}],
    \* 7: a Docker volume named as its id, a binding mirrored to /mnt/mirror,
    \*    a binding without source; the compose file of db does not parse
    [stacks_yaml |-> Manifest(<< "web", "db" >>),
     dirs |-> [n \in StackNames |->
                 IF n = "web" THEN Dir(File("compose.yml", RawText(DocWeb)))
                 ELSE IF n = "db" THEN Dir(File("compose.yml", BrokenText))
                 ELSE NoDir],
     volumes_yaml |-> Volumes(<< VolumeDef("a", "volume", "a"),
                                 VolumeDef("cache", "binding", "files/cache"),
                                 VolumeDef("tmp", "binding", "files/tmp") >>),
     nfs_yaml |-> Nfs("/mnt/mirror"), local_paths |-> {"files/cache"}]
>>

\* What each origin holds over time: the checkouts a clone of it can return.
Holds(origin) == IF origin = "github.com/ops/a" THEN {1, 2, 3, 4, 6} ELSE {1, 5, 7}

\* The digests docker reports for the local image and the registry for the
\* remote one; "" is None.
LocalDigests == {"", "sha256:1"}
RemoteDigests == {"", "sha256:1", "sha256:2"}

\* --------------------------------------------------------------- the state

VARIABLES
    stacks,               \* table stacks: rows [name, repository_url, compose_path, hash, status]
    images,               \* table images: rows [name, reference_count]
    repository_cache,     \* table repository_cache: the urls
    pc,                   \* where the running command stands; "done" once it has
                          \* returned, "idle" between two runs of the program
    cmd,                  \* the command running or last run: [name, url]
    is_reconcile,         \* process_and_deploy_stacks' is_reconcile
    rid,                  \* the checkout cloned (index into Checkouts), 0 before any
    repo,                 \* the working tree at repo_path (compose files are written back)
    volumes_definitions,  \* Option<Vec<VolumeDefinition>>: [some, defs]
    vidx,                 \* process_volumes_config: the definition reached
    idx,                  \* the stack loop: the declaration reached
    sweep,                \* process_images: the rows get_all_images returned
    sidx,                 \* process_images: the row reached
    result,               \* what the last command returned: "" (none yet), "ok" or the error
    calls,                \* the docker stack / docker volume invocations of the command,
                          \* and the docker image invocations of stop, in order
    image_calls,          \* process_images: the invocations for the row last handled
    shas,                 \* process_images: << local_sha, remote_sha >> of that row
    evicted,              \* process_images: the images removed for a count of 0
    processed,            \* the texts given to process_yaml_file in the pass, in order
    settled,              \* per origin: the checkout of its last completed pass, 0 when
                          \* none, or when a failed pass or a teardown came after it
    prior,                \* settled[url] as the running pass found it
    stacks0,              \* table stacks as the running command found it
    images0,              \* table images as the running command found it
    ncmd                  \* commands started

vars == << stacks, images, repository_cache, pc, cmd, is_reconcile, rid, repo,
           volumes_definitions, vidx, idx, sweep, sidx, result, calls, image_calls,
           shas, evicted, processed, settled, prior, stacks0, images0, ncmd >>

store == << stacks, images, repository_cache >>

None == [some |-> FALSE, defs |-> << >>]
Some(defs) == [some |-> TRUE, defs |-> defs]

\* One external invocation: docker stack deploy / rm, docker image rm / pull,
\* docker volume create, the registry's HEAD; and the two halves of the
\* mirroring of a binding volume, the copy and the permissions.
Call(op, arg, ok) == [op |-> op, arg |-> arg, ok |-> ok]

Init ==
    /\ stacks = {}
    /\ images = {}
    /\ repository_cache = {}
    /\ pc = "idle"
    /\ cmd = [name |-> "none", url |-> ""]
    /\ is_reconcile = FALSE
    /\ rid = 0
    /\ repo = Checkouts[1]
    /\ volumes_definitions = None
    /\ vidx = 0
    /\ idx = 0
    /\ sweep = << >>
    /\ sidx = 0
    /\ result = ""
    /\ calls = << >>
    /\ image_calls = << >>
    /\ shas = << "", "" >>
    /\ evicted = {}
    /\ processed = << >>
    /\ settled = [o \in Origins |-> 0]
    /\ prior = 0
    /\ stacks0 = {}
    /\ images0 = {}
    /\ ncmd = 0

\* main dispatches a command.
StartCommand(name, url) ==
    /\ pc = "idle"
    /\ ncmd < MaxCommands
    /\ ncmd' = ncmd + 1
    /\ cmd' = [name |-> name, url |-> url]
    /\ stacks0' = stacks
    /\ images0' = images
    /\ UNCHANGED << volumes_definitions, vidx, idx, sweep, sidx, image_calls, shas,
                    evicted, processed >>

\* The command returns Err(error): `?` hands it up to main, nothing is undone.
Fail(error) ==
    /\ pc' = "done"
    /\ result' = error

\* process_and_deploy_stacks returns Err(error), and so does watch.
PassFail(error) ==
    /\ Fail(error)
    /\ settled' = [settled EXCEPT ![cmd.url] = 0]

\* watch enters the origin in the cache as soon as it is cloned.
Watch_Eager(github_url) ==
    /\ StartCommand("watch", github_url)
    /\ is_reconcile' = FALSE
    /\ calls' = << >>
    /\ prior' = settled[github_url]
    /\ UNCHANGED << stacks, images, settled >>
    /\ IF github_url \in repository_cache
       THEN /\ Fail("already being watched")
            /\ UNCHANGED << rid, repo, repository_cache >>
       ELSE \E cloned \in {0} \cup Holds(github_url) :
               IF cloned = 0
               THEN /\ Fail("Failed to clone repository")
                    /\ UNCHANGED << rid, repo, repository_cache >>
               ELSE /\ pc' = "pass"
                    /\ rid' = cloned
                    /\ repo' = Checkouts[cloned]
                    /\ repository_cache' = repository_cache \cup {github_url}
                    /\ UNCHANGED result

\* watch without the cache guard: an origin already watched is cloned again.
Watch_Unguarded(github_url) ==
    /\ StartCommand("watch", github_url)
    /\ is_reconcile' = FALSE
    /\ calls' = << >>
    /\ prior' = settled[github_url]
    /\ UNCHANGED << store, settled >>
    /\ \E cloned \in {0} \cup Holds(github_url) :
          IF cloned = 0
          THEN /\ Fail("Failed to clone repository")
               /\ UNCHANGED << rid, repo >>
          ELSE /\ pc' = "pass"
               /\ rid' = cloned
               /\ repo' = Checkouts[cloned]
               /\ UNCHANGED result

\* Commands::watch up to the call of process_and_deploy_stacks: the cache
\* guard, then clone_repository.
Watch(github_url) ==
    /\ StartCommand("watch", github_url)
    /\ is_reconcile' = FALSE
    /\ calls' = << >>
    /\ prior' = settled[github_url]
    /\ UNCHANGED << store, settled >>
    /\ IF github_url \in repository_cache
       THEN /\ Fail("already being watched")
            /\ UNCHANGED << rid, repo >>
       ELSE \E cloned \in {0} \cup Holds(github_url) :
               IF cloned = 0
               THEN /\ Fail("Failed to clone repository")
                    /\ UNCHANGED << rid, repo >>
               ELSE /\ pc' = "pass"
                    /\ rid' = cloned
                    /\ repo' = Checkouts[cloned]
                    /\ UNCHANGED result

\* process_and_deploy_stacks(repo_path, repository_url, true): a pass in
\* reconcile mode on a fresh checkout of an origin. (watch, its one caller in
\* the repository, passes is_reconcile = false.)
Pass(checkout, repository_url) ==
    /\ StartCommand("pass", repository_url)
    /\ is_reconcile' = TRUE
    /\ calls' = << >>
    /\ pc' = "pass"
    /\ rid' = checkout
    /\ repo' = Checkouts[checkout]
    /\ prior' = settled[repository_url]
    /\ UNCHANGED << store, settled, result >>

\* A stacks.yaml that does not parse counts as an empty list.
ManifestError_Lenient(stacks_yaml) ==
    IF ~stacks_yaml.exists THEN "stacks.yaml not found in repository" ELSE ""

\* Lines 206-213: the error stacks.yaml makes the pass return, "" when it is
\* there and parses.
ManifestError(stacks_yaml) ==
    IF ~stacks_yaml.exists THEN "stacks.yaml not found in repository"
    ELSE IF ~stacks_yaml.parses THEN "stacks.yaml: parse error"
    ELSE ""

\* process_and_deploy_stacks, lines 198-213: the reference counts are reset,
\* then stacks.yaml is looked for, read and parsed.
BeginPass ==
    /\ pc = "pass"
    /\ images' = reset_image_reference_counts(images)
    /\ IF ManifestError(repo.stacks_yaml) # ""
       THEN PassFail(ManifestError(repo.stacks_yaml))
       ELSE pc' = "volumes" /\ UNCHANGED << result, settled >>
    /\ UNCHANGED << stacks, repository_cache, cmd, is_reconcile, rid, repo,
                    volumes_definitions, vidx, idx, sweep, sidx, calls, image_calls,
                    shas, evicted, processed, prior, stacks0, images0, ncmd >>

\* process_volumes_config, lines 602-636: volumes.yaml and nfs.yaml are read.
VolumesConfig ==
    /\ pc = "volumes"
    /\ IF ~repo.volumes_yaml.exists
       THEN /\ volumes_definitions' = None
            /\ pc' = "stacks"
            /\ idx' = 1
            /\ UNCHANGED << vidx, result, settled >>
       ELSE IF ~repo.volumes_yaml.parses \/ (repo.nfs_yaml.exists /\ ~repo.nfs_yaml.parses)
       THEN /\ PassFail("volumes.yaml or nfs.yaml: parse error")
            /\ UNCHANGED << volumes_definitions, vidx, idx >>
       ELSE /\ volumes_definitions' = Some(repo.volumes_yaml.defs)
            /\ vidx' = 1
            /\ pc' = "volume"
            /\ UNCHANGED << idx, result, settled >>
    /\ UNCHANGED << store, cmd, is_reconcile, rid, repo, sweep, sidx, calls,
                    image_calls, shas, evicted, processed, prior, stacks0, images0, ncmd >>

\* process_volumes_config, lines 638-661: one definition of the loop, and the
\* return of Some(volumes_definitions) after the last. docker answers
\* `volume ls` (exists) and `volume create` (created); the removal of the
\* old mirror target and the copy run or fail (copied, lines 703-727: `?`),
\* and chmod, find and chown exit with or without success (normalized, lines
\* 766-811: a warning).
VolumeStep ==
    /\ pc = "volume"
    /\ IF vidx > Len(volumes_definitions.defs)
       THEN /\ pc' = "stacks"
            /\ idx' = 1
            /\ UNCHANGED << volumes_definitions, vidx, calls, result, settled >>
       ELSE LET volume_def == volumes_definitions.defs[vidx] IN
            /\ idx' = idx
            /\ IF volume_def.type = "volume"
               THEN \* ensure_docker_volume_exists(&volume_def.path)
                    \E exists \in BOOLEAN, created \in BOOLEAN :
                       IF exists
                       THEN /\ vidx' = vidx + 1
                            /\ UNCHANGED << pc, volumes_definitions, calls, result, settled >>
                       ELSE /\ calls' = Append(calls, Call("volume_create", volume_def.path, created))
                            /\ IF created
                               THEN /\ vidx' = vidx + 1
                                    /\ UNCHANGED << pc, volumes_definitions, result, settled >>
                               ELSE /\ PassFail("Failed to create Docker volume")
                                    /\ UNCHANGED << volumes_definitions, vidx >>
               ELSE IF ~repo.nfs_yaml.exists \/ volume_def.path \notin repo.local_paths
               THEN \* no NFS configuration, or process_binding_volume finds no local path
                    /\ vidx' = vidx + 1
                    /\ UNCHANGED << pc, volumes_definitions, calls, result, settled >>
               ELSE \* process_binding_volume
                    \E copied \in BOOLEAN, normalized \in BOOLEAN :
                       /\ calls' = calls \o << Call("copy", volume_def.id, copied) >>
                                         \o (IF copied
                                             THEN << Call("chmod", volume_def.id, normalized) >>
                                             ELSE << >>)
                       /\ IF copied
                          THEN /\ volumes_definitions' =
                                     [volumes_definitions EXCEPT !.defs[vidx].path =
                                         PathJoin(repo.nfs_yaml.path, volume_def.id)]
                               /\ vidx' = vidx + 1
                               /\ UNCHANGED << pc, result, settled >>
                          ELSE /\ PassFail("binding volume: file system error")
                               /\ UNCHANGED << volumes_definitions, vidx >>
    /\ UNCHANGED << store, cmd, is_reconcile, rid, repo, sweep, sidx, image_calls,
                    shas, evicted, processed, prior, stacks0, images0, ncmd >>

\* The first of compose_files the stack directory holds, "" when it holds none
\* (lines 231-249).
compose_file_path(dir) ==
    IF \E i \in 1..Len(compose_files) : compose_files[i] \in DOMAIN dir.files
    THEN compose_files[CHOOSE i \in 1..Len(compose_files) :
            /\ compose_files[i] \in DOMAIN dir.files
            /\ \A j \in 1..(i - 1) : compose_files[j] \notin DOMAIN dir.files]
    ELSE ""

\* Line 276: the stored fingerprint differs from the document's.
HashChanged(existing_stack, compose_hash) == existing_stack.hash # compose_hash

\* The changed-stack branch stops the running stack in both modes.
ReconcileStack_StopAlways(stks, name, repository_url, relative_compose_path, compose_hash, reconcile, stopped, deployed) ==
    LET existing == get_stack_by_name(stks, name, repository_url) IN
    IF existing # {}
    THEN LET existing_stack == CHOOSE row \in existing : TRUE IN
         IF HashChanged(existing_stack, compose_hash)
         THEN LET hashed == update_stack_hash(stks, name, repository_url, compose_hash)
                  rm == << Call("stack_rm", name, stopped) >>
              IN  [stacks |-> IF deployed
                              THEN update_stack_status(hashed, name, repository_url, "deployed")
                              ELSE hashed,
                   calls |-> rm \o << Call("deploy", name, deployed) >>,
                   failed |-> ~deployed]
         ELSE [stacks |-> stks, calls |-> << >>, failed |-> FALSE]
    ELSE LET created == create_stack(stks, NewStack(name, repository_url,
                                                    relative_compose_path, compose_hash))
         IN  [stacks |-> IF deployed
                         THEN update_stack_status(created, name, repository_url, "deployed")
                         ELSE created,
              calls |-> << Call("deploy", name, deployed) >>,
              failed |-> ~deployed]

\* The new-stack branch marks the record deployed whatever deploy_stack
\* returned.
ReconcileStack_Unconditional(stks, name, repository_url, relative_compose_path, compose_hash, reconcile, stopped, deployed) ==
    LET existing == get_stack_by_name(stks, name, repository_url) IN
    IF existing # {}
    THEN LET existing_stack == CHOOSE row \in existing : TRUE IN
         IF HashChanged(existing_stack, compose_hash)
         THEN LET hashed == update_stack_hash(stks, name, repository_url, compose_hash)
                  rm == IF reconcile THEN << Call("stack_rm", name, stopped) >> ELSE << >>
              IN  [stacks |-> IF deployed
                              THEN update_stack_status(hashed, name, repository_url, "deployed")
                              ELSE hashed,
                   calls |-> rm \o << Call("deploy", name, deployed) >>,
                   failed |-> ~deployed]
         ELSE [stacks |-> stks, calls |-> << >>, failed |-> FALSE]
    ELSE LET created == create_stack(stks, NewStack(name, repository_url,
                                                    relative_compose_path, compose_hash))
         IN  [stacks |-> update_stack_status(created, name, repository_url, "deployed"),
              calls |-> << Call("deploy", name, deployed) >>,
              failed |-> ~deployed]

\* Lines 274-310 for one stack: the rows and the invocations they leave, and
\* whether deploy_stack returned Err. docker answers `stack rm` (stopped) and
\* `stack deploy` (deployed).
ReconcileStack(stks, name, repository_url, relative_compose_path, compose_hash, reconcile, stopped, deployed) ==
    LET existing == get_stack_by_name(stks, name, repository_url) IN
    IF existing # {}
    THEN LET existing_stack == CHOOSE row \in existing : TRUE IN
         IF HashChanged(existing_stack, compose_hash)
         THEN LET hashed == update_stack_hash(stks, name, repository_url, compose_hash)
                  rm == IF reconcile THEN << Call("stack_rm", name, stopped) >> ELSE << >>
              IN  [stacks |-> IF deployed
                              THEN update_stack_status(hashed, name, repository_url, "deployed")
                              ELSE hashed,
                   calls |-> rm \o << Call("deploy", name, deployed) >>,
                   failed |-> ~deployed]
         ELSE [stacks |-> stks, calls |-> << >>, failed |-> FALSE]
    ELSE LET created == create_stack(stks, NewStack(name, repository_url,
                                                    relative_compose_path, compose_hash))
         IN  [stacks |-> IF deployed
                         THEN update_stack_status(created, name, repository_url, "deployed")
                         ELSE created,
              calls |-> << Call("deploy", name, deployed) >>,
              failed |-> ~deployed]

\* The declaration the stack loop stands at.
stack_def == repo.stacks_yaml.defs[idx]

\* The text of the compose file of the stack at hand, as read at line 252.
ComposeRead ==
    repo.dirs[stack_def.name].files[compose_file_path(repo.dirs[stack_def.name])]

\* compose_content after lines 255-259: rewritten when a volume catalog exists.
compose_content ==
    IF volumes_definitions.some
    THEN process_compose_volumes(ComposeRead, volumes_definitions.defs)
    ELSE ComposeRead

\* The stack directory is missing or holds no compose file (lines 225, 246).
StackMissing(dir) == ~dir.is_dir \/ compose_file_path(dir) = ""

\* A missing stack ends the pass with an error.
SkipStack_Abort ==
    /\ PassFail("stack directory or compose file not found")
    /\ idx' = idx

\* `continue` at lines 227 and 248: on to the next declaration.
SkipStack ==
    /\ idx' = idx + 1
    /\ UNCHANGED << pc, result, settled >>

\* One turn of the loop `for stack_def in &stacks_definitions` (lines 220-314).
StackStep ==
    /\ pc = "stacks"
    /\ idx <= Len(repo.stacks_yaml.defs)
    /\ UNCHANGED << repository_cache, cmd, is_reconcile, rid, volumes_definitions,
                    vidx, sweep, sidx, image_calls, shas, evicted, prior, stacks0, images0, ncmd >>
    /\ IF StackMissing(repo.dirs[stack_def.name])
       THEN /\ SkipStack
            /\ UNCHANGED << stacks, images, repo, calls, processed >>
       ELSE IF volumes_definitions.some /\ ~ComposeRead.parses
       THEN \* process_compose_volumes: serde_yaml::from_str fails
            /\ PassFail("compose file: parse error")
            /\ UNCHANGED << stacks, images, repo, idx, calls, processed >>
       ELSE \E stopped \in BOOLEAN, deployed \in BOOLEAN :
               LET name == stack_def.name
                   file == compose_file_path(repo.dirs[name])
                   after == ReconcileStack(stacks, name, cmd.url, name \o "/" \o file,
                                           calculate_md5(compose_content),
                                           is_reconcile, stopped, deployed)
               IN  /\ repo' = [repo EXCEPT !.dirs[name].files[file] = compose_content]
                   /\ stacks' = after.stacks
                   /\ calls' = calls \o after.calls
                   /\ IF after.failed
                      THEN /\ PassFail("Failed to deploy stack")
                           /\ UNCHANGED << images, idx, processed >>
                      ELSE /\ images' = process_yaml_file(images, compose_content)
                           /\ processed' = Append(processed, compose_content)
                           /\ idx' = idx + 1
                           /\ UNCHANGED << pc, result, settled >>

\* Database::get_all_images: the rows in the order of `ORDER BY name`.
get_all_images(imgs) ==
    LET present == { i \in 1..Len(ImageOrder) : get_image_by_name(imgs, ImageOrder[i]) # {} }
        RECURSIVE Rows(_)
        Rows(i) == IF i > Len(ImageOrder) THEN << >>
                   ELSE (IF i \in present
                         THEN << CHOOSE row \in get_image_by_name(imgs, ImageOrder[i]) : TRUE >>
                         ELSE << >>) \o Rows(i + 1)
    IN  Rows(1)

\* The sweep is called from within the loop, after the first stack.
StacksDone_Early == idx > 1

\* The loop `for stack_def in &stacks_definitions` has taken its last turn
\* (line 314).
StacksDone == idx > Len(repo.stacks_yaml.defs)

\* process_and_deploy_stacks, line 318, after the last turn of the stack loop:
\* process_images reads the table (line 441).
ProcessImagesBegin ==
    /\ pc = "stacks"
    /\ StacksDone
    /\ sweep' = get_all_images(images)
    /\ sidx' = 1
    /\ pc' = "images"
    /\ UNCHANGED << store, cmd, is_reconcile, rid, repo, volumes_definitions, vidx, idx,
                    result, calls, image_calls, shas, evicted, processed, settled,
                    prior, stacks0, images0, ncmd >>

RECURSIVE Join(_, _)
\* [&str]::join(sep)
Join(parts, sep) ==
    IF Len(parts) = 0 THEN ""
    ELSE IF Len(parts) = 1 THEN parts[1]
    ELSE parts[1] \o sep \o Join(Tail(parts), sep)

\* Every repository on Docker Hub gets the library/ prefix.
parse_image_name_Library(image_name) ==
    LET tagged == Contains(image_name, ":") /\ Len(Split(image_name, ":")) = 2
        named == IF tagged THEN Split(image_name, ":")[1] ELSE image_name
        tag == IF tagged THEN Split(image_name, ":")[2] ELSE "latest"
        parts == Split(named, "/")
        custom == /\ Contains(named, "/")
                  /\ Len(parts) >= 2
                  /\ (Contains(parts[1], ".") \/ parts[1] = "localhost")
        registry == IF custom THEN parts[1] ELSE "registry-1.docker.io"
        repository == IF custom THEN Join(Tail(parts), "/") ELSE named
    IN  [registry |-> registry,
         repository |-> IF registry = "registry-1.docker.io"
                        THEN "library/" \o repository
                        ELSE repository,
         tag |-> tag]

\* Commands::parse_image_name: (registry, repository, tag).
parse_image_name(image_name) ==
    LET tagged == Contains(image_name, ":") /\ Len(Split(image_name, ":")) = 2
        named == IF tagged THEN Split(image_name, ":")[1] ELSE image_name
        tag == IF tagged THEN Split(image_name, ":")[2] ELSE "latest"
        parts == Split(named, "/")
        custom == /\ Contains(named, "/")
                  /\ Len(parts) >= 2
                  /\ (Contains(parts[1], ".") \/ parts[1] = "localhost")
        registry == IF custom THEN parts[1] ELSE "registry-1.docker.io"
        repository == IF custom THEN Join(Tail(parts), "/") ELSE named
    IN  [registry |-> registry,
         repository |-> IF registry = "registry-1.docker.io" /\ ~Contains(repository, "/")
                        THEN "library/" \o repository
                        ELSE repository,
         tag |-> tag]

\* Commands::get_remote_image_sha, line 546: the URL of the manifest.
ManifestUrl(registry, repository, tag) ==
    "https://" \o registry \o "/v2/" \o repository \o "/manifests/" \o tag

\* The URL asked for each image name a checkout can hold: parse_image_name
\* (line 464) and the format! of line 546, worked out once per name.
RemoteUrls ==
    [image_name \in { ImageOrder[i] : i \in 1..Len(ImageOrder) } |->
        LET name == parse_image_name(image_name) IN
        ManifestUrl(name.registry, name.repository, name.tag)]

\* The registry's HEAD for the manifest of an image (lines 463-470 and
\* 546-553): the request goes to the URL built from the parsed name.
HeadRequest(image_name, ok) ==
    [op |-> "head", arg |-> image_name, ok |-> ok, url |-> RemoteUrls[image_name]]

\* A changed image is pulled over the old one, which is not removed first.
check_and_update_image_PullOnly(image_name, local_sha, reached, remote_sha, removed, pulled) ==
    IF ~reached
    THEN [calls |-> << HeadRequest(image_name, FALSE) >>, failed |-> TRUE]
    ELSE LET head == << HeadRequest(image_name, TRUE) >> IN
         IF local_sha = "" \/ (remote_sha # "" /\ local_sha # remote_sha)
         THEN [calls |-> head \o << Call("pull", image_name, pulled) >>, failed |-> ~pulled]
         ELSE [calls |-> head, failed |-> FALSE]

\* Commands::check_and_update_image for one image: its invocations and
\* whether it returned Err. local_sha and remote_sha are what docker and the
\* registry report ("" is None), reached tells whether the HEAD request got
\* an answer at all, removed and pulled are docker's answers to `image rm`
\* and `image pull`.
check_and_update_image(image_name, local_sha, reached, remote_sha, removed, pulled) ==
    IF ~reached
    THEN [calls |-> << HeadRequest(image_name, FALSE) >>, failed |-> TRUE]
    ELSE LET head == << HeadRequest(image_name, TRUE) >> IN
         IF local_sha # "" /\ remote_sha # ""
         THEN IF local_sha # remote_sha
              THEN [calls |-> head \o << Call("image_rm", image_name, removed),
                                         Call("pull", image_name, pulled) >>,
                    failed |-> ~pulled]
              ELSE [calls |-> head, failed |-> FALSE]
         ELSE IF local_sha = ""
         THEN [calls |-> head \o << Call("pull", image_name, pulled) >>, failed |-> ~pulled]
         ELSE [calls |-> head, failed |-> FALSE]

\* One turn of the loop `for image in &images` of process_images (lines 444-454).
ImageStep ==
    /\ pc = "images"
    /\ sidx <= Len(sweep)
    /\ UNCHANGED << store, cmd, is_reconcile, rid, repo, volumes_definitions, vidx, idx,
                    sweep, calls, processed, prior, stacks0, images0, ncmd >>
    /\ LET image == sweep[sidx] IN
       IF image.reference_count = 0
       THEN \E removed \in BOOLEAN :
               /\ image_calls' = << Call("image_rm", image.name, removed) >>
               /\ shas' = << "", "" >>
               /\ evicted' = evicted \cup {image.name}
               /\ sidx' = sidx + 1
               /\ UNCHANGED << pc, result, settled >>
       ELSE \E local_sha \in LocalDigests, reached \in BOOLEAN :
            \E remote_sha \in IF reached THEN RemoteDigests ELSE {""} :
            \E removed \in IF local_sha # "" /\ remote_sha \notin {"", local_sha}
                            THEN BOOLEAN ELSE {TRUE} :
            \E pulled \in IF reached /\ (local_sha = "" \/ remote_sha \notin {"", local_sha})
                           THEN BOOLEAN ELSE {TRUE} :
               LET after == check_and_update_image(image.name, local_sha, reached,
                                                   remote_sha, removed, pulled)
               IN  /\ image_calls' = after.calls
                   /\ shas' = << local_sha, IF reached THEN remote_sha ELSE "" >>
                   /\ evicted' = evicted
                   /\ IF after.failed
                      THEN /\ PassFail(IF reached THEN "Failed to pull image"
                                       ELSE "registry request failed")
                           /\ sidx' = sidx
                      ELSE /\ sidx' = sidx + 1
                           /\ UNCHANGED << pc, result, settled >>

\* process_images, line 457, and the return of process_and_deploy_stacks; in
\* watch, lines 36-44 follow: the origin enters the cache.
ProcessImagesEnd ==
    /\ pc = "images"
    /\ sidx > Len(sweep)
    /\ images' = delete_images_with_zero_count(images)
    /\ repository_cache' = IF cmd.name = "watch"
                           THEN repository_cache \cup {cmd.url}
                           ELSE repository_cache
    /\ settled' = [settled EXCEPT ![cmd.url] = rid]
    /\ pc' = "done"
    /\ result' = "ok"
    /\ UNCHANGED << stacks, cmd, is_reconcile, rid, repo, volumes_definitions, vidx, idx,
                    sweep, sidx, calls, image_calls, shas, evicted, processed, prior,
                    stacks0, images0, ncmd >>

\* reconcile zeroes the reference counts before it lists the tables.
Reconcile_Resetting ==
    /\ StartCommand("reconcile", "")
    /\ calls' = << >>
    /\ prior' = 0
    /\ IF repository_cache = {}
       THEN Fail("No repositories found in cache")
       ELSE Fail("ok")
    /\ images' = reset_image_reference_counts(images)
    /\ UNCHANGED << stacks, repository_cache, is_reconcile, rid, repo, settled >>

\* Commands::reconcile
Reconcile ==
    /\ StartCommand("reconcile", "")
    /\ calls' = << >>
    /\ prior' = 0
    /\ IF repository_cache = {}
       THEN Fail("No repositories found in cache")
       ELSE Fail("ok")
    /\ UNCHANGED << store, is_reconcile, rid, repo, settled >>

RECURSIVE StopCalls(_, _, _)
\* The `docker stack rm` of Commands::stop, one per row of get_all_stacks.
StopCalls(stks, i, answers) ==
    IF i > Len(StackOrder) THEN << >>
    ELSE LET rows == { row \in stks : row.name = StackOrder[i] }
         IN  [k \in 1..Cardinality(rows) |-> Call("stack_rm", StackOrder[i], answers[i])]
             \o StopCalls(stks, i + 1, answers)

\* Commands::stop: every stack and every image removed, then the three
\* tables emptied. docker's answers change nothing (stop_stack and
\* remove_image return Ok either way).
Stop ==
    /\ StartCommand("stop", "")
    /\ prior' = 0
    /\ \E answers \in [1..Len(StackOrder) -> BOOLEAN], removed \in BOOLEAN :
          calls' = StopCalls(stacks, 1, answers)
                   \o [k \in 1..Len(get_all_images(images)) |->
                         Call("image_rm", get_all_images(images)[k].name, removed)]
    /\ stacks' = {}
    /\ images' = delete_images_with_zero_count(reset_image_reference_counts(images))
    /\ repository_cache' = {}
    /\ settled' = [o \in Origins |-> 0]
    /\ Fail("ok")
    /\ UNCHANGED << is_reconcile, rid, repo >>

\* main returns and the process exits: only the store outlives it.
Exit ==
    /\ pc = "done"
    /\ pc' = "idle"
    /\ cmd' = [name |-> "none", url |-> ""]
    /\ is_reconcile' = FALSE
    /\ rid' = 0
    /\ repo' = Checkouts[1]
    /\ volumes_definitions' = None
    /\ vidx' = 0
    /\ idx' = 0
    /\ sweep' = << >>
    /\ sidx' = 0
    /\ result' = ""
    /\ calls' = << >>
    /\ image_calls' = << >>
    /\ shas' = << "", "" >>
    /\ evicted' = {}
    /\ processed' = << >>
    /\ prior' = 0
    /\ stacks0' = {}
    /\ images0' = {}
    /\ UNCHANGED << store, settled, ncmd >>

Next ==
    \/ \E github_url \in Origins : Watch(github_url)
    \/ \E repository_url \in Origins : \E checkout \in Holds(repository_url) :
          Pass(checkout, repository_url)
    \/ BeginPass
    \/ VolumesConfig
    \/ VolumeStep
    \/ StackStep
    \/ ProcessImagesBegin
    \/ ImageStep
    \/ ProcessImagesEnd
    \/ Reconcile
    \/ Stop
    \/ Exit

Spec == Init /\ [][Next]_vars

\* ------------------------------------------------------------ properties

\* A pass of process_and_deploy_stacks is running or has returned.
InPass == cmd.name \in {"watch", "pass"} /\ rid # 0

\* The pass has returned to its caller.
PassEnded == InPass /\ pc = "done"

\* The declarations of the manifest the pass reads.
Declared == repo.stacks_yaml.defs

\* The positions in the invocation log of the deploys of stack `name`.
DeployCalls(name) ==
    { i \in 1..Len(calls) : calls[i].op = "deploy" /\ calls[i].arg = name }

\* The compose file of stack `name` as the fresh checkout holds it.
FreshDir(name) == Checkouts[rid].dirs[name]
FreshRead(name) == FreshDir(name).files[compose_file_path(FreshDir(name))]

\* C1: when a pass has completed for an origin and a second pass runs for the
\* same origin on a checkout with the same declared stacks and byte-identical
\* compose files, the second pass invokes no deploy.
C1_Idempotence ==
    (InPass /\ prior # 0 /\ prior = rid) =>
        \A i \in 1..Len(calls) : calls[i].op # "deploy"

\* The rewritten document of stack `name`: the fresh compose file after the
\* rewrite by the resolved volume catalog.
Rewritten(name) ==
    IF volumes_definitions.some
    THEN process_compose_volumes(FreshRead(name), volumes_definitions.defs)
    ELSE FreshRead(name)

\* Stack `name` had no StackRecord when the pass began, or one whose stored
\* fingerprint differs from that of the rewritten document.
NewOrChanged(name) ==
    LET rows == get_stack_by_name(stacks0, name, cmd.url) IN
    \/ rows = {}
    \/ \E row \in rows : row.hash # calculate_md5(Rewritten(name))

\* C2: in every pass, a declared stack whose directory and compose document
\* exist is deployed exactly once when it is new or its fingerprint changed,
\* and not at all otherwise; no stack is deployed more than once in a pass.
C2_OneDeployPerStack ==
    PassEnded =>
        \A i \in 1..Len(Declared) :
            LET name == Declared[i].name IN
            (/\ ~StackMissing(FreshDir(name))
             /\ (volumes_definitions.some => FreshRead(name).parses)) =>
                Cardinality(DeployCalls(name)) = IF NewOrChanged(name) THEN 1 ELSE 0

\* The stack loop of the running pass has ended.
AfterStackLoop ==
    /\ InPass
    /\ \/ pc = "stacks" /\ idx > Len(Declared)
       \/ pc = "images"

\* How often image x occurs in the documents of `texts`.
RECURSIVE Referenced(_, _)
Referenced(texts, x) ==
    IF texts = << >> THEN 0
    ELSE LET found == ImagesFound(Head(texts)) IN
         Cardinality({ i \in 1..Len(found) : found[i] = x }) + Referenced(Tail(texts), x)

\* The persisted reference count of image x, 0 when it has no row.
RefCount(imgs, x) ==
    IF get_image_by_name(imgs, x) = {} THEN 0
    ELSE (CHOOSE row \in get_image_by_name(imgs, x) : TRUE).reference_count

ImageNames == { ImageOrder[i] : i \in 1..Len(ImageOrder) } \cup { row.name : row \in images }

\* C3: after the stack loop of a pass the persisted reference count of every
\* image equals the number of its occurrences in the compose documents the
\* pass processed, whatever counts an earlier pass left.
C3_ReferenceCounts ==
    AfterStackLoop =>
        \A x \in ImageNames : RefCount(images, x) = Referenced(processed, x)

\* A second pass has ended its stack loop with an image counted twice and an
\* image of the earlier pass left at zero.
C3_Witness ==
    /\ AfterStackLoop
    /\ ncmd = 2
    /\ \E row \in images : row.reference_count >= 2
    /\ \E row \in images : row.reference_count = 0

\* C4: after a pass, every ImageRecord whose reference count was 0 when the
\* stack loop ended is absent from the store and `docker image rm` was
\* invoked for it.
C4_ZeroCountGone ==
    (PassEnded /\ sidx >= 1) =>
        \A j \in 1..Len(sweep) :
            sweep[j].reference_count = 0 =>
                /\ sweep[j].name \in evicted
                /\ get_image_by_name(images, sweep[j].name) = {}

\* C5: a declared stack whose directory is missing or holds no candidate
\* compose file gets no StackRecord created or updated and no deploy, and the
\* pass does not end at it: it goes on to the next declaration.
C5_MissingStackSkipped ==
    InPass =>
        \A i \in 1..Len(Declared) :
            LET name == Declared[i].name IN
            StackMissing(FreshDir(name)) =>
                /\ get_stack_by_name(stacks, name, cmd.url)
                       = get_stack_by_name(stacks0, name, cmd.url)
                /\ DeployCalls(name) = {}
                /\ ~(pc = "done" /\ idx = i)

\* A pass has skipped a stack, deployed a stack declared after it and run
\* the image sweep.
C5_Witness ==
    /\ PassEnded
    /\ result = "ok"
    /\ sidx >= 1
    /\ \E i, j \in 1..Len(Declared) :
          /\ i < j
          /\ StackMissing(FreshDir(Declared[i].name))
          /\ DeployCalls(Declared[j].name) # {}

\* C6: a failed deploy ends the processing of its stack only: the stack loop
\* still goes through every stack declared after it in the same pass.
C6_DeployFailureLocal ==
    (PassEnded /\ \E i \in 1..Len(calls) : calls[i].op = "deploy" /\ ~calls[i].ok) =>
        idx >= Len(Declared)

\* The Docker volumes `docker volume create` failed for.
FailedVolumes ==
    { calls[i].arg : i \in { j \in 1..Len(calls) :
                               calls[j].op = "volume_create" /\ ~calls[j].ok } }

\* The `volume` declarations of the catalog whose volume could not be ensured.
FailedDefs ==
    SelectSeq(Checkouts[rid].volumes_yaml.defs,
              LAMBDA d : d.type = "volume" /\ d.path \in FailedVolumes)

\* Stack `name` has a compose document that mounts none of the failed volumes.
Unaffected(name) ==
    /\ ~StackMissing(FreshDir(name))
    /\ FreshRead(name).parses
    /\ RewriteCompose(FreshRead(name).value, FailedDefs) = FreshRead(name).value

\* C7: a failure to ensure the Docker volume of a `volume` declaration is
\* fatal for the affected stack only: the declared stacks that do not mount
\* it are still processed in the same pass.
C7_VolumeFailureLocal ==
    (PassEnded /\ FailedVolumes # {}) =>
        \A i \in 1..Len(Declared) : Unaffected(Declared[i].name) => idx > i

\* C8: a failed pull of one image does not stop the sweep: every other
\* ImageRecord is still handled and the zero-count records are deleted.
C8_PullFailureLocal ==
    (PassEnded /\ \E i \in 1..Len(image_calls) :
                      image_calls[i].op = "pull" /\ ~image_calls[i].ok) =>
        /\ sidx >= Len(sweep)
        /\ \A row \in images : row.reference_count # 0

\* C9: a network failure of the registry probe counts as remote digest
\* unknown and is never fatal: an image present locally is left alone and
\* the sweep goes on, an image absent locally is pulled.
C9_ProbeFailureNotFatal ==
    (InPass /\ \E i \in 1..Len(image_calls) :
                   image_calls[i].op = "head" /\ ~image_calls[i].ok) =>
        IF shas[1] # ""
        THEN pc = "images" /\ Len(image_calls) = 1
        ELSE \E i \in 1..Len(image_calls) : image_calls[i].op = "pull"

\* The checkout of the pass has no stacks.yaml, or one that does not parse.
ManifestUnusable ==
    ~Checkouts[rid].stacks_yaml.exists \/ ~Checkouts[rid].stacks_yaml.parses

\* C10: with stacks.yaml missing or unparseable the pass returns an error
\* before any stack is processed: nothing is deployed or removed and no
\* StackRecord is created or modified.
C10_ManifestAbort ==
    (InPass /\ ManifestUnusable) =>
        /\ pc \in {"pass", "done"}
        /\ pc = "done" => result \in {"stacks.yaml not found in repository",
                                      "stacks.yaml: parse error"}
        /\ idx = 0
        /\ calls = << >>
        /\ image_calls = << >>
        /\ stacks = stacks0

\* A pass on a checkout without usable stacks.yaml has returned, with stacks
\* of an earlier pass in the store.
C10_Witness ==
    /\ PassEnded
    /\ ManifestUnusable
    /\ stacks # {}

\* The removals and pulls of the image the sweep handled last, in order.
Refresh == SelectSeq(image_calls, LAMBDA c : c.op \in {"image_rm", "pull"})

\* The sweep has just handled an image of count > 0 whose registry probe got
\* an answer.
Probed ==
    /\ InPass
    /\ image_calls # << >>
    /\ image_calls[1].op = "head"
    /\ image_calls[1].ok

\* C11: for an image of count > 0 whose local and remote digests are both
\* present, a difference makes exactly one `docker image rm` followed by
\* exactly one pull of that image, and equality makes neither.
C11_RegistryRefresh ==
    (Probed /\ shas[1] # "" /\ shas[2] # "") =>
        IF shas[1] # shas[2]
        THEN /\ Len(Refresh) = 2
             /\ Refresh[1].op = "image_rm"
             /\ Refresh[2].op = "pull"
             /\ Refresh[1].arg = image_calls[1].arg
             /\ Refresh[2].arg = image_calls[1].arg
        ELSE Refresh = << >>

\* The sweep has met an image whose digests differ and refreshed it.
C11_Witness ==
    /\ Probed
    /\ shas = << "sha256:1", "sha256:2" >>
    /\ Len(Refresh) = 2
    /\ Refresh[2].ok

\* The sweep has just handled an image of count > 0: it asked the registry.
Checked ==
    /\ InPass
    /\ image_calls # << >>
    /\ image_calls[1].op = "head"

\* C12: for an image of count > 0, an absent local digest makes exactly one
\* pull and no removal whatever the remote digest is, and a present local
\* digest with the remote one unavailable makes neither pull nor removal.
C12_AbsentOrUnavailable ==
    Checked =>
        /\ shas[1] = "" =>
              /\ Len(Refresh) = 1
              /\ Refresh[1].op = "pull"
              /\ Refresh[1].arg = image_calls[1].arg
        /\ (shas[1] # "" /\ shas[2] = "") => Refresh = << >>

\* The sweep of the running pass has begun or left a trace.
SweepBegun == sidx >= 1 \/ image_calls # << >> \/ evicted # {}

SweepStep ==
    InPass =>
        /\ (sidx = 0 /\ sidx' # 0) =>
              pc = "stacks" /\ idx > Len(Declared) /\ sidx' = 1
        /\ (sidx # 0 /\ pc' # "idle") => sidx' \in {sidx, sidx + 1} /\ sweep' = sweep
        /\ (\E row \in images : get_image_by_name(images', row.name) = {}) =>
              pc = "images" /\ sidx > Len(sweep) /\ idx > Len(Declared)

Counted ==
    { i \in 1..Len(Declared) : i < idx /\ ~StackMissing(FreshDir(Declared[i].name)) }

\* How often image x occurs in the compose documents of the declarations in
\* the set `positions`.
RECURSIVE Occurrences(_, _)
Occurrences(positions, x) ==
    IF positions = {} THEN 0
    ELSE LET i == CHOOSE p \in positions : TRUE
             found == ImagesFound(FreshRead(Declared[i].name))
         IN  Cardinality({ k \in 1..Len(found) : found[k] = x })
                 + Occurrences(positions \ {i}, x)

\* C14: every stack whose compose document was located adds its images to
\* the reference counts of the pass whichever branch it took: the images of
\* an unchanged stack count like those of a new or a redeployed one.
C14_CountedWhateverBranch ==
    (InPass /\ idx >= 1) =>
        \A x \in ImageNames : RefCount(images, x) = Occurrences(Counted, x)

\* A pass has gone past a stack it found unchanged, whose image is counted.
C14_Witness ==
    /\ InPass
    /\ \E i \in Counted :
          /\ DeployCalls(Declared[i].name) = {}
          /\ \E x \in ImageNames :
                /\ Occurrences({i}, x) >= 1
                /\ RefCount(images, x) >= 1

\* The entries of the "services" mapping of a document.
ServicesOf(value) ==
    LET si == KeyIndex(value, "services") IN
    IF si = 0 THEN << >>
    ELSE IF value.kids[si].v.t # "map" THEN << >>
    ELSE value.kids[si].v.kids

\* The volume-mount entries of one service.
MountsOf(service) ==
    LET vi == KeyIndex(service, "volumes") IN
    IF vi = 0 THEN << >>
    ELSE IF service.kids[vi].v.t # "seq" THEN << >>
    ELSE service.kids[vi].v.kids

\* The stack loop feeds a rewritten document onward in this step.
Rewrites ==
    /\ pc = "stacks"
    /\ volumes_definitions.some
    /\ Len(processed') = Len(processed) + 1

\* The text the step read and the document it made of it.
RewriteIn == ComposeRead.value
RewriteOut == processed'[Len(processed')].value

\* Mount `entry` has the form identifier:container_path.
IsReference(entry) ==
    /\ IsStr(entry)
    /\ Contains(entry.s, ":")
    /\ Len(Split(entry.s, ":")) = 2

\* The catalog has an entry for `identifier`.
InCatalog(identifier) ==
    \E n \in 1..Len(volumes_definitions.defs) : volumes_definitions.defs[n].id = identifier

\* C15: every service volume-mount entry identifier:container_path whose
\* identifier matches a catalog entry reads P:container_path in the rewritten
\* document, P being the current path field of that entry.
C15_VolumeRewrite ==
    [][Rewrites =>
          /\ Len(ServicesOf(RewriteOut)) = Len(ServicesOf(RewriteIn))
          /\ \A j \in 1..Len(ServicesOf(RewriteIn)) :
                LET before == MountsOf(ServicesOf(RewriteIn)[j].v)
                    after == MountsOf(ServicesOf(RewriteOut)[j].v)
                IN  /\ Len(after) = Len(before)
                    /\ \A k \in 1..Len(before) :
                          (IsReference(before[k]) /\ InCatalog(Split(before[k].s, ":")[1])) =>
                              LET parts == Split(before[k].s, ":")
                                  defs == volumes_definitions.defs
                              IN  \E n \in 1..Len(defs) :
                                     /\ defs[n].id = parts[1]
                                     /\ \A q \in 1..(n - 1) : defs[q].id # parts[1]
                                     /\ after[k] = Str(defs[n].path \o ":" \o parts[2])]_vars

\* A pass has rewritten a document against a catalog with a Docker volume
\* named as its id and a binding resolved to /mnt/mirror/cache: a:/x is as
\* before and cache:/data has become /mnt/mirror/cache:/data.
C15_Witness ==
    /\ InPass
    /\ volumes_definitions.some
    /\ \E n \in 1..Len(volumes_definitions.defs) :
          volumes_definitions.defs[n] = VolumeDef("a", "volume", "a")
    /\ \E n \in 1..Len(volumes_definitions.defs) :
          volumes_definitions.defs[n] = VolumeDef("cache", "binding", "/mnt/mirror/cache")
    /\ \E i \in 1..Len(processed) : \E j \in 1..Len(ServicesOf(processed[i].value)) :
          LET mounts == MountsOf(ServicesOf(processed[i].value)[j].v) IN
          /\ \E k \in 1..Len(mounts) : mounts[k] = Str("a:/x")
          /\ \E k \in 1..Len(mounts) : mounts[k] = Str("/mnt/mirror/cache:/data")

\* Mount `entry` has no colon, or names an identifier the catalog has not.
PassesThrough(entry) ==
    /\ IsStr(entry)
    /\ \/ ~Contains(entry.s, ":")
       \/ IsReference(entry) /\ ~InCatalog(Split(entry.s, ":")[1])

\* C16: a volume-mount entry without colon, or whose identifier is not in
\* the catalog, is the same in the rewritten document, and the rewrite of a
\* document that parses never returns an error.
C16_UnknownPassesThrough ==
    /\ [][Rewrites =>
             \A j \in 1..Len(ServicesOf(RewriteIn)) :
                LET before == MountsOf(ServicesOf(RewriteIn)[j].v)
                    after == MountsOf(ServicesOf(RewriteOut)[j].v)
                IN  /\ Len(after) = Len(before)
                    /\ \A k \in 1..Len(before) :
                          PassesThrough(before[k]) => after[k] = before[k]]_vars
    /\ []((PassEnded /\ result = "compose file: parse error") => ~FreshRead(stack_def.name).parses)

\* A pass has rewritten a document that mounts `logs` and `scratch:/tmp`
\* against a catalog that has neither, and both are as they were.
C16_Witness ==
    /\ InPass
    /\ volumes_definitions.some
    /\ ~InCatalog("logs")
    /\ ~InCatalog("scratch")
    /\ \E i \in 1..Len(processed) : \E j \in 1..Len(ServicesOf(processed[i].value)) :
          LET mounts == MountsOf(ServicesOf(processed[i].value)[j].v) IN
          /\ processed[i].form = "emitted"
          /\ \E k \in 1..Len(mounts) : mounts[k] = Str("logs")
          /\ \E k \in 1..Len(mounts) : mounts[k] = Str("scratch:/tmp")

\* The catalog declares `identifier` as a binding.
IsBinding(identifier) ==
    \E n \in 1..Len(volumes_definitions.defs) :
        /\ volumes_definitions.defs[n].id = identifier
        /\ volumes_definitions.defs[n].type = "binding"

\* C17: without nfs.yaml a binding declaration stays unresolved and every
\* mount entry id:container_path that names it is in the rewritten document
\* as it was declared, not replaced by the declaration's source path.
C17_UnresolvedBindingKept ==
    [][(Rewrites /\ ~repo.nfs_yaml.exists) =>
          \A j \in 1..Len(ServicesOf(RewriteIn)) :
             LET before == MountsOf(ServicesOf(RewriteIn)[j].v)
                 after == MountsOf(ServicesOf(RewriteOut)[j].v)
             IN  \A k \in 1..Len(before) :
                    (IsReference(before[k]) /\ IsBinding(Split(before[k].s, ":")[1])) =>
                        after[k] = before[k]]_vars

\* Image names beyond those of the compose documents of the model.
ImageSamples ==
    ImageNames \cup {"localhost/app", "localhost/team/app:v3", "redis:7",
                     "ghcr.io/org/tool", "org/team/app"}

\* The first path segment of an image name, "" when the name has no slash.
FirstSegment(image_name) ==
    LET named == IF Len(Split(image_name, ":")) = 2
                 THEN Split(image_name, ":")[1] ELSE image_name
    IN  IF Contains(named, "/") THEN Split(named, "/")[1] ELSE ""

\* C18: parse_image_name maps nginx to (default registry, library/nginx,
\* latest), myorg/app:v2 to (default registry, myorg/app, v2) and
\* registry.example.com/team/app:v1 to (registry.example.com, team/app, v1);
\* a first path segment with a dot or equal to localhost is the registry
\* host and is stripped, and a slash-free repository on the default registry
\* gets the library/ prefix. The probe of the sweep asks the URL of the
\* parsed name; the general rule is evaluated on ImageSamples, once, where
\* the behaviour begins.
C18_ParseImageName ==
    /\ Checked =>
          LET name == image_calls[1].arg
              url == image_calls[1].url
          IN  /\ name = "nginx" =>
                    url = "https://registry-1.docker.io/v2/library/nginx/manifests/latest"
              /\ name = "myorg/app:v2" =>
                    url = "https://registry-1.docker.io/v2/myorg/app/manifests/v2"
              /\ name = "registry.example.com/team/app:v1" =>
                    url = "https://registry.example.com/v2/team/app/manifests/v1"
    /\ ncmd = 0 => \A name \in ImageSamples :
          LET parsed == parse_image_name(name)
              first == FirstSegment(name)
          IN  /\ (Contains(first, ".") \/ first = "localhost") =>
                    /\ parsed.registry = first
                    /\ first \o "/" \o parsed.repository \in
                           {name, name \o ":latest"} \cup
                           { SubSeq(name, 1, n) : n \in 1..Len(name) }
              /\ ~(Contains(first, ".") \/ first = "localhost") =>
                    parsed.registry = "registry-1.docker.io"
              /\ (parsed.registry = "registry-1.docker.io" /\ first = "") =>
                    /\ SubSeq(parsed.repository, 1, 8) = "library/"
                    /\ ~Contains(SubSeq(parsed.repository, 9, Len(parsed.repository)), "/")
              /\ (parsed.registry = "registry-1.docker.io" /\ first # "") =>
                    SubSeq(parsed.repository, 1, Len(first) + 1) = first \o "/"

\* The sweep has asked registry.example.com for team/app:v1 after the two
\* images of the default registry.
C18_Witness ==
    /\ Checked
    /\ image_calls[1].arg = "registry.example.com/team/app:v1"
    /\ image_calls[1].url = "https://registry.example.com/v2/team/app/manifests/v1"
    /\ image_calls[1].ok
    /\ sidx = 4

\* The values of every mapping entry of a document whose key is exactly
\* "image" and whose value is a non-empty string, at every depth: below the
\* value of every entry, whatever its key, and below every sequence item.
RECURSIVE ImageEntries(_), ImageEntriesOf(_, _), ImageEntriesIn(_, _)
ImageEntries(value) ==
    IF value.t = "map" THEN ImageEntriesOf(value.kids, 1)
    ELSE IF value.t = "seq" THEN ImageEntriesIn(value.kids, 1)
    ELSE << >>

ImageEntriesOf(entries, i) ==
    IF i > Len(entries) THEN << >>
    ELSE LET key == entries[i].k
             val == entries[i].v
             here == IF IsStr(key) /\ key.s = "image" /\ IsStr(val) /\ val.s # ""
                     THEN << val.s >>
                     ELSE << >>
         IN  here \o ImageEntries(val) \o ImageEntriesOf(entries, i + 1)

ImageEntriesIn(items, i) ==
    IF i > Len(items) THEN << >>
    ELSE ImageEntries(items[i]) \o ImageEntriesIn(items, i + 1)

\* How often x is among the image entries of the compose documents of the
\* declarations in the set `positions`.
RECURSIVE EntryOccurrences(_, _)
EntryOccurrences(positions, x) ==
    IF positions = {} THEN 0
    ELSE LET i == CHOOSE p \in positions : TRUE
             text == FreshRead(Declared[i].name)
             found == IF text.parses THEN ImageEntries(text.value) ELSE << >>
         IN  Cardinality({ k \in 1..Len(found) : found[k] = x })
                 + EntryOccurrences(positions \ {i}, x)

\* C19: the image scan collects every mapping entry whose key is exactly
\* `image` and whose value is a non-empty string, at every nesting depth of
\* the document, the entries below a non-string value of another `image` key
\* included, and nothing else: the counts of the pass are those of the image
\* entries of the documents it has gone through.
C19_EveryImageEntry ==
    (InPass /\ idx >= 1) =>
        \A x \in ImageNames : RefCount(images, x) = EntryOccurrences(Counted, x)

\* The stack loop stands at a located stack that has no StackRecord.
NewStackTurn ==
    /\ pc = "stacks"
    /\ idx <= Len(Declared)
    /\ ~StackMissing(repo.dirs[stack_def.name])
    /\ (volumes_definitions.some => ComposeRead.parses)
    /\ get_stack_by_name(stacks, stack_def.name, cmd.url) = {}

\* The record the turn leaves and the one invocation it makes.
NewStackOutcome ==
    LET rows == get_stack_by_name(stacks', stack_def.name, cmd.url)
        last == calls'[Len(calls')]
    IN  /\ Len(calls') = Len(calls) + 1
        /\ last.op = "deploy"
        /\ last.arg = stack_def.name
        /\ Cardinality(rows) = 1
        /\ \A row \in rows :
              /\ row.hash = calculate_md5(compose_content)
              /\ row.status = IF last.ok THEN "deployed" ELSE "pending"
        /\ ~last.ok => pc' = "done" /\ result' = "Failed to deploy stack"

\* C20: for a declared stack with no StackRecord the record is created with
\* status pending, then deploy is invoked, then the status is set to
\* deployed, and only when the deploy succeeded: the turn makes exactly one
\* deploy invocation and leaves one record, deployed after a successful
\* deploy, still pending after a failed one, which ends the pass.
C20_NewStackOrder == [][NewStackTurn => NewStackOutcome]_vars

\* A pass has created the records of two stacks: one deployed, the other
\* left pending by the deploy that failed.
C20_Witness ==
    /\ PassEnded
    /\ \E i, j \in 1..Len(Declared) :
          LET a == Declared[i].name
              b == Declared[j].name
          IN  /\ get_stack_by_name(stacks0, a, cmd.url) = {}
              /\ get_stack_by_name(stacks0, b, cmd.url) = {}
              /\ \E row \in get_stack_by_name(stacks, a, cmd.url) : row.status = "deployed"
              /\ \E row \in get_stack_by_name(stacks, b, cmd.url) : row.status = "pending"
              /\ \E k \in DeployCalls(a) : calls[k].ok
              /\ \E k \in DeployCalls(b) : ~calls[k].ok

\* The stack loop stands at a located stack whose StackRecord holds another
\* fingerprint than that of the document at hand.
ChangedStackTurn ==
    /\ pc = "stacks"
    /\ idx <= Len(Declared)
    /\ ~StackMissing(repo.dirs[stack_def.name])
    /\ (volumes_definitions.some => ComposeRead.parses)
    /\ \E row \in get_stack_by_name(stacks, stack_def.name, cmd.url) :
          row.hash # calculate_md5(compose_content)

\* The invocations the turn makes: in reconcile mode a remove, then the
\* deploy; in first-watch mode the deploy alone.
ChangedStackCalls ==
    LET made == SubSeq(calls', Len(calls) + 1, Len(calls'))
        ops == [k \in 1..Len(made) |-> made[k].op]
    IN  /\ SubSeq(calls', 1, Len(calls)) = calls
        /\ \A k \in 1..Len(made) : made[k].arg = stack_def.name
        /\ ops = IF is_reconcile THEN << "stack_rm", "deploy" >> ELSE << "deploy" >>

\* The record of the stack at hand, before and after the turn.
RowBefore == CHOOSE row \in get_stack_by_name(stacks, stack_def.name, cmd.url) : TRUE
RowAfter == CHOOSE row \in get_stack_by_name(stacks', stack_def.name, cmd.url) : TRUE

ForeignRows(stks) == { row \in stks : row.repository_url # cmd.url }

\* The stack loop stands at a stack whose compose document it can take in.
LocatedTurn ==
    /\ pc = "stacks"
    /\ idx <= Len(Declared)
    /\ ~StackMissing(repo.dirs[stack_def.name])
    /\ (volumes_definitions.some => ComposeRead.parses)

\* C22: the identity of a StackRecord is (name, origin): the store holds at
\* most one record per pair; a turn of the stack loop for one origin leaves
\* the records of every other origin as they are, those of the same stack
\* name included; and it leaves a record of its own for the stack at hand,
\* whatever records of that name the other origins have: one name under two
\* origins is two records.
C22_StackIdentity ==
    /\ [](\A r1, r2 \in stacks :
            (r1.name = r2.name /\ r1.repository_url = r2.repository_url) => r1 = r2)
    /\ [][pc = "stacks" => ForeignRows(stacks') = ForeignRows(stacks)]_vars
    /\ [][LocatedTurn =>
            Cardinality({ row \in stacks' : /\ row.name = stack_def.name
                                            /\ row.repository_url = cmd.url }) = 1]_vars

\* A pass has made the record of a stack whose name another origin holds a
\* record of, and both records are in the store.
C22_Witness ==
    /\ InPass
    /\ \E r1, r2 \in stacks :
          /\ r1.name = r2.name
          /\ r1.repository_url = cmd.url
          /\ r2.repository_url # cmd.url
          /\ r2 \in stacks0
          /\ \A r0 \in stacks0 : ~(r0.name = r1.name /\ r0.repository_url = cmd.url)
          /\ DeployCalls(r1.name) # {}

\* The StackRecord of stack `name` under the origin of the running command.
RowsOf(stks, name) ==
    { row \in stks : row.name = name /\ row.repository_url = cmd.url }

\* The pass found the StackRecord of `name` with the fingerprint of the
\* rewritten document of its checkout.
Unchanged(name) ==
    /\ ~StackMissing(FreshDir(name))
    /\ volumes_definitions.some => FreshRead(name).parses
    /\ \E row \in RowsOf(stacks0, name) : row.hash = calculate_md5(Rewritten(name))

\* C23: when the record of a stack exists and its stored fingerprint equals
\* the fingerprint of the rewritten document, the pass leaves that record as
\* it is (fingerprint, status, compose path) and invokes neither deploy nor
\* remove for the stack.
C23_UnchangedUntouched ==
    (InPass /\ pc \in {"stacks", "images", "done"}) =>
        \A i \in 1..Len(Declared) :
            LET name == Declared[i].name IN
            Unchanged(name) =>
                /\ RowsOf(stacks, name) = RowsOf(stacks0, name)
                /\ \A k \in 1..Len(calls) :
                      calls[k].arg = name => calls[k].op \notin {"deploy", "stack_rm"}

\* References that name a registry port and a tag.
PortSamples == {"localhost:5000/app:v1", "registry.example.com:5000/team/app:v2"}

\* The text after the last colon of a reference.
LastColonPart(image_name) ==
    Split(image_name, ":")[Len(Split(image_name, ":"))]

\* The text `whole` ends with the text `tail`.
EndsWith(whole, tail) ==
    /\ Len(whole) >= Len(tail)
    /\ SubSeq(whole, Len(whole) - Len(tail) + 1, Len(whole)) = tail

\* C24: parse_image_name on any reference that contains a colon separates a
\* tag from the repository, so that the returned repository never contains
\* the tag text: localhost:5000/app:v1 yields the tag v1, not the default
\* latest. Evaluated on ImageSamples and PortSamples, once, where the
\* behaviour begins.
C24_TagSeparated ==
    ncmd = 0 =>
        \A name \in ImageSamples \cup PortSamples :
            Contains(name, ":") =>
                LET parsed == parse_image_name(name)
                    tag == LastColonPart(name)
                IN  /\ parsed.tag = tag
                    /\ ~EndsWith(parsed.repository, ":" \o tag)

\* The step mirrors a binding volume and a file system operation of it
\* fails: the removal of the old destination or the copy of the source tree
\* (copy), or the normalisation of the permissions (chmod).
MirrorFails ==
    /\ pc = "volume"
    /\ Len(calls') > Len(calls)
    /\ \E k \in (Len(calls) + 1)..Len(calls') :
          calls'[k].op \in {"copy", "chmod"} /\ ~calls'[k].ok

\* C25: a file system error while a binding volume is mirrored (removing the
\* old destination, copying the source tree, normalising the permissions) is
\* only a warning: the pass goes on to the next volume declaration, and so
\* to the declared stacks.
C25_MirrorErrorWarning ==
    [][MirrorFails => /\ pc' = "volume"
                      /\ vidx' = vidx + 1
                      /\ result' = result]_vars

\* The pass has returned an error before its counting was complete: before
\* the sweep read the table.
AbortedCounting == PassEnded /\ result # "ok" /\ ~SweepBegun

\* C26: the persisted reference counts are committed only after the rebuild
\* of a pass: when a pass aborts before its counting completes (manifest
\* missing, volume or deploy failure), the persisted ImageRecords hold the
\* counts the pass found, not zeroed or partially rebuilt ones.
C26_CountsCommittedAfterRebuild == AbortedCounting => images = images0

\* The rows the sweep found with a count of 0.
ZeroCounted == { sweep[j].name : j \in { k \in 1..Len(sweep) : sweep[k].reference_count = 0 } }

\* Image `name` has no ImageRecord.
NoRecord(name) == \A row \in images : row.name # name

\* C27: the eviction of a zero-count image in the sweep invokes the removal
\* of the artifact before the ImageRecord is deleted, and a failing removal
\* is not an error: the sweep continues and the record is still deleted.
C27_EvictionOrder ==
    (InPass /\ pc \in {"images", "done"} /\ sidx >= 1) =>
        /\ \A name \in ZeroCounted : NoRecord(name) => name \in evicted
        /\ (image_calls # << >> /\ image_calls[1].op = "image_rm" /\ evicted # {}
                /\ image_calls[1].arg \in evicted) =>
              (pc = "images" \/ result = "ok")
        /\ pc = "done" => \A name \in evicted : NoRecord(name)

\* `stop` has returned Ok.
Stopped == cmd.name = "stop" /\ pc = "done" /\ result = "ok"

\* The invocations of the command with operation `op` for `name`.
CallsFor(op, name) == { k \in 1..Len(calls) : calls[k].op = op /\ calls[k].arg = name }

\* C28: after `stop` has returned successfully the store holds no
\* StackRecord, no ImageRecord and no repository-cache entry, whatever the
\* reference counts and statuses were, and remove was invoked once for every
\* StackRecord and image removal once for every ImageRecord that existed.
C28_FullTeardown ==
    Stopped =>
        /\ stacks = {}
        /\ images = {}
        /\ repository_cache = {}
        /\ \A k \in 1..Len(calls) : calls[k].op \in {"stack_rm", "image_rm"}
        /\ \A name \in { row.name : row \in stacks0 } \cup { calls[k].arg : k \in 1..Len(calls) } :
              Cardinality(CallsFor("stack_rm", name))
                  = Cardinality({ row \in stacks0 : row.name = name })
        /\ \A name \in { row.name : row \in images0 } \cup { calls[k].arg : k \in 1..Len(calls) } :
              Cardinality(CallsFor("image_rm", name))
                  = Cardinality({ row \in images0 : row.name = name })

\* `stop` has torn down a store that held a deployed stack, a pending one
\* and counted images.
C28_Witness ==
    /\ Stopped
    /\ \E r1, r2 \in stacks0 : r1.status = "deployed" /\ r2.status = "pending"
    /\ \E row \in images0 : row.reference_count >= 1
    /\ Len(calls) >= 3

\* The turn of the stack loop invokes a deploy that fails.
DeployFails ==
    /\ LocatedTurn
    /\ Len(calls') > Len(calls)
    /\ calls'[Len(calls')].op = "deploy"
    /\ ~calls'[Len(calls')].ok

\* The fingerprints stored for stack `name` under the origin of the command.
StoredHashes(stks, name) == { row.hash : row \in RowsOf(stks, name) }

\* C29: the stored fingerprint of a StackRecord is always that of a document
\* whose deploy invocation succeeded: a deploy that fails for a new or a
\* changed stack stores no fingerprint, so that a later pass with the same
\* content still finds the stack new or changed and deploys it again.
C29_FingerprintOfDeployed ==
    [][DeployFails =>
          StoredHashes(stacks', stack_def.name) = StoredHashes(stacks, stack_def.name)]_vars

\* The images of the compose document of stack `name` in the checkout the
\* last completed pass of `origin` worked on; none when that checkout does
\* not hold the stack.
ImagesOfSettled(origin, name) ==
    LET dir == Checkouts[settled[origin]].dirs[name] IN
    IF StackMissing(dir) THEN {}
    ELSE LET found == ImagesFound(dir.files[compose_file_path(dir)])
         IN  { found[k] : k \in 1..Len(found) }

\* The images referenced by the deployed stacks of the other origins than
\* that of the running pass.
ForeignImages ==
    UNION { ImagesOfSettled(row.repository_url, row.name) :
              row \in { r \in stacks : /\ r.repository_url \in Origins \ {cmd.url}
                                       /\ settled[r.repository_url] # 0
                                       /\ r.status = "deployed" } }

\* C30: a pass for one origin never evicts an image that a stack of another
\* origin references while the StackRecord of that stack is present with
\* status deployed: neither the removal of the artifact nor the deletion of
\* the ImageRecord.
C30_ForeignImagesKept ==
    InPass =>
        \A x \in ForeignImages :
            /\ x \notin evicted
            /\ pc = "done" => ~NoRecord(x)

\* `watch` is dispatched for an origin the repository cache holds.
WatchCached ==
    /\ pc = "idle"
    /\ pc' # "idle"
    /\ cmd'.name = "watch"
    /\ cmd'.url \in repository_cache

\* `watch` has refused an origin.
Refused == cmd.name = "watch" /\ result = "already being watched"

\* C31: `watch` on an origin that is already in the repository cache returns
\* an error and does nothing else: no checkout, no deploy or remove, no image
\* removal or pull, and no change to the StackRecords, the ImageRecords and
\* their counts, or the cache.
C31_WatchCachedRefused ==
    /\ [][WatchCached => /\ pc' = "done"
                          /\ result' = "already being watched"
                          /\ rid' = 0
                          /\ calls' = << >>
                          /\ image_calls' = << >>
                          /\ evicted' = {}
                          /\ stacks' = stacks
                          /\ images' = images
                          /\ repository_cache' = repository_cache]_vars
    /\ [](Refused => /\ pc = "done"
                      /\ rid = 0
                      /\ calls = << >>
                      /\ image_calls = << >>
                      /\ stacks = stacks0
                      /\ images = images0
                      /\ cmd.url \in repository_cache)

\* `watch` has refused an origin whose stacks and images are recorded.
C31_Witness ==
    /\ Refused
    /\ \E row \in stacks : row.repository_url = cmd.url /\ row.status = "deployed"
    /\ \E row \in images : row.reference_count >= 1

\* The step ends a `watch` pass without error.
WatchCompletes ==
    /\ cmd.name = "watch"
    /\ pc = "images"
    /\ pc' = "done"
    /\ result' = "ok"

\* `watch` is dispatched for an origin the repository cache does not hold.
WatchUncached ==
    /\ pc = "idle"
    /\ pc' # "idle"
    /\ cmd'.name = "watch"
    /\ cmd'.url \notin repository_cache

\* C32: an origin is in the repository cache only if a `watch` pass for it
\* completed without error: the cache gains an origin in no other step, so a
\* pass that fails (manifest, volume, deploy, pull or probe error) adds
\* nothing, and a later `watch` of that origin is accepted: it clones and,
\* the clone made, runs a new pass.
C32_CachedOnlyAfterWatch ==
    /\ [][repository_cache' \subseteq
              repository_cache \cup (IF WatchCompletes THEN {cmd.url} ELSE {})]_vars
    /\ []((cmd.name = "watch" /\ pc = "done" /\ result \notin {"ok", "already being watched"})
              => cmd.url \notin repository_cache)
    /\ [][WatchUncached => \/ (pc' = "pass" /\ rid' # 0)
                            \/ (pc' = "done" /\ result' = "Failed to clone repository")]_vars

\* A second `watch` of an origin runs its pass: the first left a record
\* pending at a failed deploy and the origin out of the cache.
C32_Witness ==
    /\ cmd.name = "watch"
    /\ ncmd = 2
    /\ pc = "stacks"
    /\ cmd.url \notin repository_cache
    /\ \E row \in stacks0 : row.repository_url = cmd.url /\ row.status = "pending"

\* `reconcile` is dispatched.
ReconcileRuns ==
    /\ pc = "idle"
    /\ pc' # "idle"
    /\ cmd'.name = "reconcile"

====
